---- MODULE Spec2Model ----
(***************************************************************************)
(* Video-Browser: the LangGraph workflow (planner -> searcher -> selector  *)
(* -> [watcher] -> checker -> planner | analyst), its blackboard           *)
(* (AgentState) with per-field reducers, the six node functions and the    *)
(* two routing functions.                                                  *)
(***************************************************************************)
EXTENDS Integers, Sequences, FiniteSets, TLC

\* ---------------------------------------------------------------- bounds
MaxN == 2            \* largest checker.max_loop_steps explored, and the Checker calls of one session
MaxResults == 2      \* search results gathered by one Searcher call
max_queries == 1     \* config.planner.max_queries
top_k == 1           \* config.selector.top_k

\* ------------------------------------------------------------ value sets
UserQueries == {"u1"}
LlmQuery == "qa"
NonStr == "<non-string>"      \* stands for a JSON item that is not a string
VideoIds == {<<"A">>}          \* video identifiers, as strings of characters
Statuses == {"candidate", "analyzing", "watched", "verified", "rejected"}
Stages == {"planner", "searcher", "selector", "watcher", "checker", "analyst"}

FallbackThought == "Thought: Parsing error, fallback to original query."
LlmThought == "Thought: plan"
NoVideosAnswer == "No videos were successfully processed."
NoContentAnswer == "No relevant video content or transcripts found to answer the query."
LlmAnswer == "answer"
ErrorAnswer == "Error: e"

VARIABLES
    pc,              \* next node to run; "END" after analyst; "failed" when an exception left the graph
    bb,              \* the blackboard: field name -> value, only for fields that have a value
    max_loop_steps,  \* config.checker.max_loop_steps
    last_event,      \* last streamed event {node: partial update}
    route,           \* label returned by the last routing function
    run,             \* number of the run on this thread
    calls,           \* node -> executions in the current run
    failure,         \* why the run failed, "none" otherwise
    contrib,         \* append field -> the list of contributions of the partial updates so far
    checker_log,     \* one entry per Checker call of the session
    gathered,        \* the video results the providers hold for the Searcher call of SpecSearch
    llm_reply,       \* the language model call of the node that ran last: the kind of reply, the content sent
    mutated,         \* the fields of the state object the last Stage received that it changed in place
    text,            \* the text handed to extract_json_from_text in SpecParse
    parsed,          \* what extract_json_from_text did with the text
    ranking,         \* the reply of the language model to the selection of SpecSelect
    target_videos,   \* the targets of the selection of SpecSelect
    thread,          \* the session whose run the other variables describe
    parked,          \* thread id -> the run of a session that is not at its turn (SpecSessions)
    futures,         \* row id -> the task of the row in the pool of the batch harness (SpecBatch)
    output_file      \* the records appended to the results file of the batch harness (SpecBatch)

vars == <<pc, bb, max_loop_steps, last_event, route, run, calls, failure, contrib, checker_log,
          gathered, llm_reply, mutated, text, parsed, ranking, target_videos, thread, parked, futures, output_file>>

\* --------------------------------------------------------------- helpers
Get(s, f, d) == IF f \in DOMAIN s THEN s[f] ELSE d

EmptyMap == <<>>

SeqsUpTo(S, n) == UNION {[1..k -> S] : k \in 0..n}

RECURSIVE Flatten(_)
Flatten(ss) == IF ss = <<>> THEN <<>> ELSE Head(ss) \o Flatten(Tail(ss))

IsPrefix(s, t) == Len(s) <= Len(t) /\ SubSeq(t, 1, Len(s)) = s

\* ------------------------------------------------ AgentState and reducers
AppendFields == {"tried_queries", "visited_video_ids", "text_search_context", "plan_trace"}
ReplaceFields == {"user_query", "constraints", "video_store", "current_search_queries",
                  "visual_hypothesis", "raw_candidates", "ambiguity_note",
                  "loop_step", "final_answer", "routing_signal"}
MetricsField == "metrics"
Fields == AppendFields \cup ReplaceFields \cup {MetricsField}

\* the categories the nodes pass to update_token_metrics; their keys hold sub-maps
MetricCategories == {"jit_selector", "jit_watcher", "jit_analyst"}

\* DictIor that keeps only the keys of the update
DictIor_Replace(cur, upd) == upd

\* DictIor that merges the sub-map of a category key by key
DictIor_TwoLevel(cur, upd) ==
    [k \in (DOMAIN cur) \cup (DOMAIN upd) |->
        IF k \notin DOMAIN upd THEN cur[k]
        ELSE IF k \in MetricCategories /\ k \in DOMAIN cur
             THEN [c \in (DOMAIN cur[k]) \cup (DOMAIN upd[k]) |->
                      IF c \in DOMAIN upd[k] THEN upd[k][c] ELSE cur[k][c]]
             ELSE upd[k]]

\* operator.ior on two dicts: keys of the update overwrite, other keys stay
DictIor(cur, upd) ==
    [k \in (DOMAIN cur) \cup (DOMAIN upd) |-> IF k \in DOMAIN upd THEN upd[k] ELSE cur[k]]

\* the state a fresh thread starts from: reducer channels hold their empty value
InitialState == [f \in AppendFields \cup {MetricsField} |->
                    IF f = MetricsField THEN EmptyMap ELSE <<>>]

\* MergeField with plan_trace declared without its operator.add reducer
MergeField_TraceReplaced(cur, upd, f) ==
    IF f \notin DOMAIN upd THEN cur[f]
    ELSE IF f \in AppendFields \ {"plan_trace"} THEN Get(cur, f, <<>>) \o upd[f]
    ELSE IF f = MetricsField THEN DictIor(Get(cur, f, EmptyMap), upd[f])
    ELSE upd[f]

\* MergeField with current_search_queries declared with an operator.add reducer
MergeField_QueriesAppended(cur, upd, f) ==
    IF f \notin DOMAIN upd THEN cur[f]
    ELSE IF f \in AppendFields \cup {"current_search_queries"} THEN Get(cur, f, <<>>) \o upd[f]
    ELSE IF f = MetricsField THEN DictIor(Get(cur, f, EmptyMap), upd[f])
    ELSE upd[f]

\* one field of the merge of a partial update into the blackboard
MergeField(cur, upd, f) ==
    IF f \notin DOMAIN upd THEN cur[f]
    ELSE IF f \in AppendFields THEN Get(cur, f, <<>>) \o upd[f]
    ELSE IF f = MetricsField THEN DictIor(Get(cur, f, EmptyMap), upd[f])
    ELSE upd[f]

Merge(cur, upd) ==
    [f \in (DOMAIN cur) \cup (DOMAIN upd) |-> MergeField(cur, upd, f)]

\* ------------------------------------------------------------- metrics
TokenUsages == {[prompt_tokens |-> 1, completion_tokens |-> 1, total_tokens |-> 2]}
NoCategory == ""

AddUsage(m, usage) ==
    DictIor(m, [input_tokens |-> Get(m, "input_tokens", 0) + usage.prompt_tokens,
                output_tokens |-> Get(m, "output_tokens", 0) + usage.completion_tokens,
                total_tokens |-> Get(m, "total_tokens", 0) + usage.total_tokens])

\* a copy of the current metrics with the usage of one reply added to the global
\* counters and to the counters of the category
update_token_metrics(current_metrics, usage, category) ==
    LET new_metrics == AddUsage(current_metrics, usage)
    IN  IF category = NoCategory THEN new_metrics
        ELSE DictIor(new_metrics,
                     [c \in {category} |-> AddUsage(Get(new_metrics, category, EmptyMap), usage)])

\* ------------------------------------------------------------ JSON parser
\* a text is a sequence of these: the fence is three backticks, "1" a digit
Fence == "fence"
JsonChars == {Fence, "{", "}", "[", "]", "1"}
NotParsed == [kind |-> "none", value |-> <<>>]
JsonError == [kind |-> "raise", value |-> <<>>]
NoMatch == <<>>

RECURSIVE IsJson(_)
\* json.loads accepts s: a number, the empty object, or an array of at most one value
\* (the texts have neither quotes nor commas nor blanks)
IsJson(s) ==
    \/ Len(s) >= 1 /\ \A i \in 1..Len(s) : s[i] = "1"
    \/ s = <<"{", "}">>
    \/ /\ Len(s) >= 2
       /\ s[1] = "[" /\ s[Len(s)] = "]"
       /\ (Len(s) = 2 \/ IsJson(SubSeq(s, 2, Len(s) - 1)))

\* the value json.loads returns for s, written as the text of the value
Loads(s) == IF IsJson(s) THEN [kind |-> "value", value |-> s] ELSE JsonError

Closer(open) == IF open = "{" THEN "}" ELSE "]"

\* group 1 of the leftmost match of the fenced pattern: a fence, the shortest run from an
\* opening brace or bracket to its closing one that a fence follows
FencedBlock(t) ==
    LET Ends(i) == {j \in (i + 2)..(Len(t) - 1) : t[j] = Closer(t[i + 1]) /\ t[j + 1] = Fence}
        Starts == {i \in 1..(Len(t) - 3) : t[i] = Fence /\ t[i + 1] \in {"{", "["} /\ Ends(i) # {}}
    IN  IF Starts = {} THEN NoMatch
        ELSE LET i == CHOOSE a \in Starts : \A b \in Starts : a <= b
                 j == CHOOSE a \in Ends(i) : \A b \in Ends(i) : a <= b
             IN  SubSeq(t, i + 1, j)

\* group 1 of the greedy match: from the first opener to the last closer of its kind
Bracketed(t, open) ==
    LET opens == {i \in 1..Len(t) : t[i] = open}
    IN  IF opens = {} THEN NoMatch
        ELSE LET a == CHOOSE i \in opens : \A k \in opens : i <= k
                 closes == {j \in (a + 1)..Len(t) : t[j] = Closer(open)}
             IN  IF closes = {} THEN NoMatch
                 ELSE SubSeq(t, a, CHOOSE j \in closes : \A k \in closes : j >= k)

\* candidate_strs after the sort: longest first, the object first when both are as long
BracketedCandidates(t) ==
    LET obj == Bracketed(t, "{")
        arr == Bracketed(t, "[")
        found == SelectSeq(<<obj, arr>>, LAMBDA c : c # NoMatch)
    IN  IF Len(found) = 2 /\ Len(arr) > Len(obj) THEN <<arr, obj>> ELSE found

\* the loop over the candidates and the parse of the whole text after it
LoadsFirst(cands, t) ==
    LET good == SelectSeq(cands, IsJson)
    IN  IF good # <<>> THEN Loads(good[1]) ELSE Loads(t)

extract_json_from_text(t) ==
    LET block == FencedBlock(t)
    IN  IF block # NoMatch THEN Loads(block)
        ELSE LoadsFirst(BracketedCandidates(t), t)

\* ------------------------------------------------------ engine bookkeeping
NoEvent == [node |-> "none", update |-> EmptyMap]
NoCalls == [s \in Stages |-> 0]
Reply(node, kind) == [node |-> node, kind |-> kind, content |-> {}, sources |-> {}]

Record(upd) ==
    [f \in AppendFields |-> IF f \in DOMAIN upd THEN Append(contrib[f], upd[f]) ELSE contrib[f]]

\* StaticEdges with the edge of the watcher drawn to the analyst
StaticEdges_WatcherToAnalyst ==
    [planner |-> "searcher", searcher |-> "selector", watcher |-> "analyst", analyst |-> "END"]

\* the unconditional edges of the graph
StaticEdges ==
    [planner |-> "searcher", searcher |-> "selector", watcher |-> "checker", analyst |-> "END"]

\* the state object a Stage received, as it is once the Stage has returned upd: the resources
\* of the returned video_store are the objects of the received one (the Watcher returns the
\* dict it received, the Selector a shallow copy of it), and the sub-map of a category in
\* the returned metrics is the object of the received metrics (update_token_metrics copies
\* the outer dict only)
SnapshotAfter(node, state, upd) ==
    [f \in DOMAIN state |->
        IF f = "video_store" /\ f \in DOMAIN upd /\ node \in {"selector", "watcher"}
        THEN [v \in DOMAIN state[f] |-> upd[f][v]]
        ELSE IF f = MetricsField /\ f \in DOMAIN upd
        THEN [k \in DOMAIN state[f] |->
                 IF k \in MetricCategories /\ k \in DOMAIN upd[f] THEN upd[f][k] ELSE state[f][k]]
        ELSE state[f]]

\* the fields of the received state object that no longer hold the value they were received with
Mutated(node, state, upd) ==
    {f \in DOMAIN state : SnapshotAfter(node, state, upd)[f] # state[f]}

\* a node returned upd: merge it, stream the event, move along an edge
Emit(node, upd, next) ==
    /\ mutated' = Mutated(node, bb, upd)
    /\ UNCHANGED <<text, parsed, ranking, target_videos, thread, parked, futures, output_file>>
    /\ bb' = Merge(bb, upd)
    /\ last_event' = [node |-> node, update |-> upd]
    /\ pc' = next
    /\ calls' = [calls EXCEPT ![node] = @ + 1]
    /\ contrib' = Record(upd)
    /\ failure' = "none"

\* an exception left the node: nothing is merged, no event is streamed
Raise(node, why) ==
    /\ pc' = "failed"
    /\ failure' = why
    /\ calls' = [calls EXCEPT ![node] = @ + 1]
    /\ mutated' = {}
    /\ UNCHANGED <<bb, last_event, contrib, text, parsed, ranking, target_videos, thread, parked, futures, output_file>>

\* --------------------------------------------------------------- Planner
PlannedLists == {[i \in 1..k |-> LlmQuery] : k \in 1..(max_queries + 1)}
PlannerReplies ==
    {[kind |-> k, queries |-> <<>>] : k \in {"raise", "garbage", "array", "no_queries", "unsliceable"}}
    \cup {[kind |-> "queries", queries |-> q] : q \in PlannedLists}
    \cup {[kind |-> "queries", queries |-> <<NonStr>>]}

Cap(qs, n) == SubSeq(qs, 1, IF Len(qs) < n THEN Len(qs) ELSE n)

\* PlannerFallback that plans no query at all
PlannerFallback_NoQuery(user_query) ==
    [fallback |-> TRUE, thought |-> FallbackThought, search_queries |-> <<>>]

\* the plan after the try/except of planner_node
PlannerFallback(user_query) ==
    [fallback |-> TRUE, thought |-> FallbackThought, search_queries |-> <<user_query>>]

PlannerPlan(reply, user_query) ==
    IF reply.kind \in {"garbage", "array", "unsliceable"} THEN PlannerFallback(user_query)
    ELSE IF reply.kind = "no_queries"
         THEN [fallback |-> FALSE, thought |-> LlmThought, search_queries |-> <<>>]
         ELSE [fallback |-> FALSE, thought |-> LlmThought,
               search_queries |-> Cap(reply.queries, max_queries)]

\* one Planner call, with the replies the language model can give
PlannerCall(replies) ==
    /\ pc = "planner"
    /\ \E reply \in replies, usage \in TokenUsages :
         /\ llm_reply' = Reply("planner", reply.kind)
         /\ IF reply.kind = "raise"
            THEN Raise("planner", "collaborator_error")
            ELSE LET plan == PlannerPlan(reply, bb["user_query"])
                     upd == [plan_trace |-> <<plan.thought>>,
                             current_search_queries |-> plan.search_queries,
                             metrics |-> update_token_metrics(Get(bb, "metrics", EmptyMap), usage, NoCategory)]
                 IN  Emit("planner", upd, StaticEdges["planner"])
    /\ UNCHANGED gathered
    /\ UNCHANGED <<max_loop_steps, route, run, checker_log>>

planner_node == PlannerCall(PlannerReplies)

\* --------------------------------------------------------------- Checker
\* CheckerOutput that compares with <= and so runs one round more
CheckerOutput_LateStop(loop_step, max) ==
    LET current_step == loop_step + 1
    IN  [loop_step |-> current_step,
         routing_signal |-> IF current_step <= max THEN "planner" ELSE "analyst"]

\* CheckerOutput that also clears the queries of the round
CheckerOutput_ClearsQueries(loop_step, max) ==
    LET current_step == loop_step + 1
    IN  [loop_step |-> current_step,
         routing_signal |-> IF current_step < max THEN "planner" ELSE "analyst",
         current_search_queries |-> <<>>]

\* CheckerOutput that asks the user instead of going on with the loop
CheckerOutput_AsksUser(loop_step, max) ==
    LET current_step == loop_step + 1
    IN  [loop_step |-> current_step,
         routing_signal |-> IF current_step < max THEN "ask_user" ELSE "analyst"]

CheckerOutput(loop_step, max) ==
    LET current_step == loop_step + 1
    IN  [loop_step |-> current_step,
         routing_signal |-> IF current_step < max THEN "planner" ELSE "analyst"]

\* route_checker_output whose default branch ends the loop
route_checker_output_DefaultAnalyst(state) ==
    LET signal == Get(state, "routing_signal", "planner")
    IN  IF signal = "ask_user" THEN "user_proxy"
        ELSE IF signal = "planner" THEN "planner"
        ELSE "analyst"

route_checker_output(state) ==
    LET signal == Get(state, "routing_signal", "planner")
    IN  IF signal = "ask_user" THEN "user_proxy"
        ELSE IF signal = "analyst" THEN "analyst"
        ELSE "planner"

CheckerEdges == [planner |-> "planner", analyst |-> "analyst"]

checker_node ==
    /\ pc = "checker"
    /\ LET upd == CheckerOutput(Get(bb, "loop_step", 0), max_loop_steps)
           label == route_checker_output(Merge(bb, upd))
       IN  /\ Emit("checker", upd, IF label \in DOMAIN CheckerEdges THEN CheckerEdges[label] ELSE "failed")
           /\ route' = label
           /\ checker_log' = Append(checker_log,
                                    [before |-> Get(bb, "loop_step", 0), after |-> upd.loop_step,
                                     signal |-> upd.routing_signal])
    /\ llm_reply' = Reply("checker", "none")
    /\ UNCHANGED gathered
    /\ UNCHANGED <<max_loop_steps, run>>

\* -------------------------------------------------------------- Searcher
\* a URL is a string: a sequence of characters, with the host and path written as one token
NoLink == <<>>
WatchPrefix == "https://www.youtube.com/watch?"
ShortsPrefix == "https://www.youtube.com"
ShortPrefix == "https://"
UrlWatch(id) == <<WatchPrefix, "v", "=">> \o id
UrlWatchAt(id) == UrlWatch(id) \o <<"&", "t", "=", "1">>
\* two URLs of the same video that differ in their query parameters
Links == UNION {{UrlWatch(v), UrlWatchAt(v)} : v \in VideoIds}
SearchResults == SeqsUpTo(Links, MaxResults)
\* what the providers gave in one call: nothing at all, or video results with a text snippet
SearchOutcomes ==
    {[results |-> <<>>, texts |-> <<>>]}
    \cup {[results |-> r, texts |-> <<"s1">>] : r \in SearchResults \ {<<>>}}

\* positions where pat occurs in s
Occurrences(s, pat) ==
    {i \in 1..(Len(s) - Len(pat) + 1) : SubSeq(s, i, i + Len(pat) - 1) = pat}
Contains(s, pat) == Occurrences(s, pat) # {}
\* s.split(pat)[-1]
AfterLast(s, pat) ==
    IF ~Contains(s, pat) THEN s
    ELSE LET i == CHOOSE j \in Occurrences(s, pat) : \A k \in Occurrences(s, pat) : k <= j
         IN  SubSeq(s, i + Len(pat), Len(s))
\* s.split(pat)[0]
BeforeFirst(s, pat) ==
    IF ~Contains(s, pat) THEN s
    ELSE LET i == CHOOSE j \in Occurrences(s, pat) : \A k \in Occurrences(s, pat) : j <= k
         IN  SubSeq(s, 1, i - 1)

extract_youtube_id(url) ==
    IF url = <<>> THEN <<>>
    ELSE IF Contains(url, <<"v", "=">>)
    THEN BeforeFirst(AfterLast(url, <<"v", "=">>), <<"&">>)
    ELSE IF Contains(url, <<"/shorts/">>)
    THEN BeforeFirst(BeforeFirst(AfterLast(url, <<"/shorts/">>), <<"?">>), <<"&">>)
    ELSE IF Contains(url, <<"youtu.be/">>)
    THEN BeforeFirst(BeforeFirst(AfterLast(url, <<"youtu.be/">>), <<"?">>), <<"&">>)
    ELSE url

RECURSIVE Dedup(_, _, _)
\* first candidate per video id, in order of first occurrence; entries without link are dropped
Dedup(cands, seen, acc) ==
    IF cands = <<>> THEN acc
    ELSE LET link == Head(cands)
             video_id == extract_youtube_id(link)
         IN  IF link = NoLink \/ video_id \in seen
             THEN Dedup(Tail(cands), seen, acc)
             ELSE Dedup(Tail(cands), seen \cup {video_id},
                        Append(acc, [link |-> link, id |-> video_id]))

\* SearcherOutput that also returns the result links under a key AgentState does not declare
SearcherOutput_VisitedUrls(queries, results, texts) ==
    [raw_candidates |-> Dedup(results, {}, <<>>),
     text_search_context |-> texts,
     tried_queries |-> queries,
     visited_urls |-> results]

SearcherOutput(queries, results, texts) ==
    [raw_candidates |-> Dedup(results, {}, <<>>),
     text_search_context |-> texts,
     tried_queries |-> queries]

\* SearcherSkip that returns no field at all
SearcherSkip_Nothing == EmptyMap

\* what the Searcher returns when there are no queries
SearcherSkip == [raw_candidates |-> <<>>]

\* one Searcher call, with the outcomes its providers can give
SearcherCall(outcomes) ==
    /\ pc = "searcher"
    /\ LET queries == Get(bb, "current_search_queries", <<>>)
       IN  IF queries = <<>>
           THEN Emit("searcher", SearcherSkip, StaticEdges["searcher"])
           ELSE IF \E i \in 1..Len(queries) : queries[i] = NonStr
           THEN Raise("searcher", "stage_error")
           ELSE \E found \in outcomes :
                   Emit("searcher", SearcherOutput(queries, found.results, found.texts),
                        StaticEdges["searcher"])
    /\ llm_reply' = Reply("searcher", "none")
    /\ UNCHANGED <<max_loop_steps, route, run, checker_log, gathered>>

searcher_node == SearcherCall(SearchOutcomes)

\* -------------------------------------------------------------- Selector
\* the stores that hold some of the videos S, each resource under its video_id, not yet inspected
StoresOver(S) ==
    UNION {{[v \in ids |-> [video_id |-> v, status |-> st[v], summary |-> "", transcript |-> ""]] :
               st \in [ids -> Statuses]} : ids \in SUBSET S}

EmptyStore == <<>>
IndexValues == {0 - 1, 0, 1}
SelectorReplies ==
    {[kind |-> k, indices |-> <<>>] : k \in {"raise", "garbage", "scalar"}}
    \cup {[kind |-> k, indices |-> ix] : k \in {"list", "dict"}, ix \in SeqsUpTo(IndexValues, 2)}

NoRanking == [kind |-> "none", indices |-> <<>>]

FirstK(s, k) == SubSeq(s, 1, IF Len(s) < k THEN Len(s) ELSE k)

RECURSIVE PickIndices_NoCap(_, _, _)
\* PickIndices without the break at top_k
PickIndices_NoCap(indices, valid, acc) ==
    IF indices = <<>> THEN acc
    ELSE LET idx == Head(indices)
         IN  IF 0 <= idx /\ idx < Len(valid)
             THEN PickIndices_NoCap(Tail(indices), valid, Append(acc, valid[idx + 1]))
             ELSE PickIndices_NoCap(Tail(indices), valid, acc)

RECURSIVE PickIndices(_, _, _)
PickIndices(indices, valid, acc) ==
    IF indices = <<>> \/ Len(acc) >= top_k THEN acc
    ELSE LET idx == Head(indices)
         IN  IF 0 <= idx /\ idx < Len(valid)
             THEN PickIndices(Tail(indices), valid, Append(acc, valid[idx + 1]))
             ELSE PickIndices(Tail(indices), valid, acc)

SelectTargets(reply, valid) ==
    LET picked == IF reply.kind \in {"list", "dict"}
                  THEN PickIndices(reply.indices, valid, <<>>)
                  ELSE FirstK(valid, top_k)
    IN  IF picked = <<>> THEN FirstK(valid, top_k) ELSE picked

\* NewResource that takes the position of the target for the id of the video
NewResource_IndexAsId(video_id) ==
    [video_id |-> <<"vid_0">>, status |-> "candidate", summary |-> "", transcript |-> ""]

NewResource(video_id) ==
    [video_id |-> video_id, status |-> "candidate", summary |-> "", transcript |-> ""]

\* Reselect without the guard on verified and watched
Reselect_Always(res) == [res EXCEPT !.status = "candidate"]

\* status a re-selected resource gets
Reselect(res) ==
    IF res.status \notin {"verified", "watched"} THEN [res EXCEPT !.status = "candidate"] ELSE res

RECURSIVE UpdateStore(_, _)
UpdateStore(store, targets) ==
    IF targets = <<>> THEN store
    ELSE LET video_id == extract_youtube_id(Head(targets).link)
             next == IF video_id \notin DOMAIN store
                     THEN [v \in (DOMAIN store) \cup {video_id} |->
                              IF v = video_id THEN NewResource(video_id) ELSE store[v]]
                     ELSE [store EXCEPT ![video_id] = Reselect(@)]
         IN  UpdateStore(next, Tail(targets))

\* route_selector_output that looks for candidate only
route_selector_output_CandidateOnly(state) ==
    LET candidates == {v \in DOMAIN state["video_store"] :
                          state["video_store"][v].status \in {"candidate"}}
    IN  IF Cardinality(candidates) > 0 THEN "watcher" ELSE "checker"

\* route_selector_output with its two labels swapped
route_selector_output_Swapped(state) ==
    LET candidates == {v \in DOMAIN state["video_store"] :
                          state["video_store"][v].status \in {"candidate", "analyzing"}}
    IN  IF Cardinality(candidates) > 0 THEN "checker" ELSE "watcher"

route_selector_output(state) ==
    LET candidates == {v \in DOMAIN state["video_store"] :
                          state["video_store"][v].status \in {"candidate", "analyzing"}}
    IN  IF Cardinality(candidates) > 0 THEN "watcher" ELSE "checker"

SelectorEdges == [watcher |-> "watcher", checker |-> "checker"]

EmitSelector(upd) ==
    LET label == route_selector_output(Merge(bb, upd))
    IN  /\ Emit("selector", upd, SelectorEdges[label])
        /\ route' = label

\* ValidCandidates that keeps the candidates without a URL
ValidCandidates_All(raw_candidates) == raw_candidates

\* the raw candidates that have a URL, in input order
ValidCandidates(raw_candidates) == SelectSeq(raw_candidates, LAMBDA raw : raw.link # NoLink)

selector_node ==
    /\ pc = "selector"
    /\ LET metrics == Get(bb, "metrics", EmptyMap)
           video_store == Get(bb, "video_store", EmptyStore)
           raw_candidates == Get(bb, "raw_candidates", <<>>)
           valid_candidates == ValidCandidates(raw_candidates)
       IN  IF raw_candidates = <<>> \/ valid_candidates = <<>>
           THEN /\ EmitSelector([video_store |-> video_store])
                /\ llm_reply' = Reply("selector", "none")
           ELSE \E reply \in SelectorReplies, usage \in TokenUsages :
                 /\ llm_reply' = Reply("selector", reply.kind)
                 /\ EmitSelector(
                      [video_store |-> UpdateStore(video_store, SelectTargets(reply, valid_candidates)),
                       metrics |-> IF reply.kind = "raise" THEN metrics
                                   ELSE update_token_metrics(metrics, usage, "jit_selector")])
    /\ UNCHANGED gathered
    /\ UNCHANGED <<max_loop_steps, run, checker_log>>

\* --------------------------------------------------------------- Watcher
ErrorSummary == "Error: e"
RawSummary == "raw response"
JsonRelevant == "{relevant: true, windows: [w]}"
JsonIrrelevant == "{relevant: false}"
JsonArray == "[w]"
WatcherReplies == {"raise", "garbage", "relevant", "irrelevant", "array"}
Transcripts == {"", "[0.0s - 5.0s] text"}
WatcherOutcomes == [llm : WatcherReplies, transcript : Transcripts]

SummaryText(llm) ==
    CASE llm = "raise" -> ErrorSummary
      [] llm = "garbage" -> RawSummary
      [] llm = "relevant" -> JsonRelevant
      [] llm = "irrelevant" -> JsonIrrelevant
      [] llm = "array" -> JsonArray

\* Watched that rejects the video when the inspection call fails
Watched_ErrorRejected(res, outcome) ==
    [res EXCEPT !.status = IF outcome.llm = "raise" THEN "rejected" ELSE "verified",
                !.summary = SummaryText(outcome.llm),
                !.transcript = outcome.transcript]

\* Watched that leaves the video a candidate when the inspection call fails
Watched_ErrorStaysCandidate(res, outcome) ==
    [res EXCEPT !.status = IF outcome.llm = "raise" THEN "candidate" ELSE "verified",
                !.summary = SummaryText(outcome.llm),
                !.transcript = outcome.transcript]

\* Watched that marks the video watched
Watched_MarkedWatched(res, outcome) ==
    [res EXCEPT !.status = "watched",
                !.summary = SummaryText(outcome.llm),
                !.transcript = outcome.transcript]

Watched(res, outcome) ==
    [res EXCEPT !.status = "verified",
                !.summary = SummaryText(outcome.llm),
                !.transcript = outcome.transcript]

RECURSIVE Repeat(_, _, _, _)
\* update_token_metrics applied once per answered call
Repeat(metrics, n, usage, category) ==
    IF n = 0 THEN metrics
    ELSE Repeat(update_token_metrics(metrics, usage, category), n - 1, usage, category)

\* the store after the loop: every processed resource is updated where it is and
\* stored under its video_id
WatcherStore(video_store, candidates, outcome) ==
    [k \in (DOMAIN video_store) \cup {video_store[v].video_id : v \in candidates} |->
        IF \E v \in candidates : video_store[v].video_id = k
        THEN LET v == CHOOSE c \in candidates : video_store[c].video_id = k
             IN  Watched(video_store[v], outcome[v])
        ELSE IF k \in candidates THEN Watched(video_store[k], outcome[k])
        ELSE video_store[k]]

\* WatcherCandidates that takes up every video not rejected
WatcherCandidates_NotRejected(video_store) ==
    {v \in DOMAIN video_store : video_store[v].status # "rejected"}

\* the videos a Watcher pass processes
WatcherCandidates(video_store) ==
    {v \in DOMAIN video_store : video_store[v].status = "candidate"}

\* WatcherOutput that also logs a video it processed as visited
WatcherOutput_LogsVisited(video_store, metrics, candidates) ==
    [video_store |-> video_store, metrics |-> metrics,
     visited_video_ids |-> <<CHOOSE v \in candidates : TRUE>>]

\* the partial update of a Watcher pass that processed the candidates
WatcherOutput(video_store, metrics, candidates) ==
    [video_store |-> video_store, metrics |-> metrics]

watcher_node ==
    /\ pc = "watcher"
    /\ LET metrics == Get(bb, "metrics", EmptyMap)
           video_store == Get(bb, "video_store", EmptyStore)
           candidates == WatcherCandidates(video_store)
       IN  IF candidates = {}
           THEN /\ Emit("watcher", [video_store |-> video_store], StaticEdges["watcher"])
                /\ llm_reply' = Reply("watcher", "none")
           ELSE \E outcome \in [candidates -> WatcherOutcomes], usage \in TokenUsages :
                   LET answered == Cardinality({v \in candidates : outcome[v].llm # "raise"})
                   IN  /\ llm_reply' = Reply("watcher", "per video")
                       /\ Emit("watcher",
                               WatcherOutput(WatcherStore(video_store, candidates, outcome),
                                             Repeat(metrics, answered, usage, "jit_watcher"),
                                             candidates),
                               StaticEdges["watcher"])
    /\ UNCHANGED gathered
    /\ UNCHANGED <<max_loop_steps, route, run, checker_log>>

\* --------------------------------------------------------------- Analyst
\* what the window of a relevant video yields: no file to read, a file but neither
\* frames nor overlapping transcript lines, frames, lines, or both
AnalystGathers == {"no_file", "nothing", "frames", "lines", "both"}

\* AnalystAnswer that hands on the text of the exception as the answer
AnalystAnswer_RawException(llm_ok) == IF llm_ok THEN LlmAnswer ELSE "e"

\* final_answer after the try/except around the synthesis call
AnalystAnswer(llm_ok) == IF llm_ok THEN LlmAnswer ELSE ErrorAnswer

\* the content parts the windows put in the request
WindowParts(gather) ==
    (IF \E v \in DOMAIN gather : gather[v] \in {"frames", "both"} THEN {"frames"} ELSE {})
    \cup (IF \E v \in DOMAIN gather : gather[v] \in {"lines", "both"} THEN {"transcript"} ELSE {})

\* the content parts of the fallback: the transcript of every resource that has one
TranscriptParts(video_store) ==
    IF \E v \in DOMAIN video_store : video_store[v].transcript # "" THEN {"transcript"} ELSE {}

\* the videos whose frames or transcript lines the windows put in the request
WindowSources(gather) == {v \in DOMAIN gather : gather[v] \in {"frames", "lines", "both"}}

\* the videos whose transcript the fallback puts in the request
TranscriptSources(video_store) == {v \in DOMAIN video_store : video_store[v].transcript # ""}

analyst_node ==
    /\ pc = "analyst"
    /\ LET metrics == Get(bb, "metrics", EmptyMap)
           video_store == Get(bb, "video_store", EmptyStore)
           analysed == {v \in DOMAIN video_store :
                           video_store[v].status = "verified" /\ video_store[v].summary # ""}
           relevant == {v \in analysed : video_store[v].summary = JsonRelevant}
       IN  IF DOMAIN video_store = {}
           THEN /\ Emit("analyst", [final_answer |-> NoVideosAnswer], StaticEdges["analyst"])
                /\ llm_reply' = Reply("analyst", "none")
           ELSE IF \E v \in analysed : video_store[v].summary = JsonArray
           THEN /\ Raise("analyst", "stage_error")
                /\ llm_reply' = Reply("analyst", "none")
           ELSE \E gather \in [relevant -> AnalystGathers], llm_ok \in BOOLEAN, usage \in TokenUsages :
                   /\ \A v \in relevant :
                         gather[v] \in {"lines", "both"} => video_store[v].transcript # ""
                   /\ LET has_relevant_content == \E v \in relevant : gather[v] # "no_file"
                          parts == IF has_relevant_content THEN WindowParts(gather)
                                   ELSE TranscriptParts(video_store)
                          sources == IF has_relevant_content THEN WindowSources(gather)
                                     ELSE TranscriptSources(video_store)
                      IN  IF ~has_relevant_content /\ parts = {}
                          THEN /\ Emit("analyst", [final_answer |-> NoContentAnswer], StaticEdges["analyst"])
                               /\ llm_reply' = Reply("analyst", "none")
                          ELSE /\ Emit("analyst",
                                       [final_answer |-> AnalystAnswer(llm_ok),
                                        metrics |-> IF llm_ok
                                                    THEN update_token_metrics(metrics, usage, "jit_analyst")
                                                    ELSE metrics],
                                       StaticEdges["analyst"])
                               /\ llm_reply' = [Reply("analyst", IF llm_ok THEN "answer" ELSE "raise")
                                                   EXCEPT !.content = parts, !.sources = sources]
    /\ UNCHANGED gathered
    /\ UNCHANGED <<max_loop_steps, route, run, checker_log>>

\* ------------------------------------------------------------ the engine
\* ResumeState that starts every run from a fresh blackboard
ResumeState_Fresh(saved, inputs) == Merge(InitialState, inputs)

\* the blackboard a run starts from: the inputs merged into the checkpoint of the thread
ResumeState(saved, inputs) == Merge(saved, inputs)

\* a further message on the same thread: the graph restarts at planner on the stored state
new_run ==
    /\ pc = "END"
    /\ Len(checker_log) < MaxN
    /\ \E q \in UserQueries : bb' = ResumeState(bb, [user_query |-> q])
    /\ pc' = "planner"
    /\ run' = run + 1
    /\ calls' = NoCalls
    /\ last_event' = NoEvent
    /\ llm_reply' = Reply("none", "none")
    /\ mutated' = {}
    /\ UNCHANGED <<gathered, text, parsed, ranking, target_videos, thread, parked, futures, output_file>>
    /\ UNCHANGED <<max_loop_steps, route, failure, contrib, checker_log>>

Init ==
    /\ pc = "planner"
    /\ \E q \in UserQueries : bb = Merge(InitialState, [user_query |-> q])
    /\ max_loop_steps \in 1..MaxN
    /\ last_event = NoEvent
    /\ route = "none"
    /\ run = 1
    /\ calls = NoCalls
    /\ failure = "none"
    /\ contrib = [f \in AppendFields |-> <<>>]
    /\ checker_log = <<>>
    /\ gathered = <<>>
    /\ llm_reply = Reply("none", "none")
    /\ mutated = {}
    /\ text = <<>>
    /\ parsed = NotParsed
    /\ ranking = NoRanking
    /\ target_videos = <<>>
    /\ thread = "r1"
    /\ parked = EmptyMap
    /\ futures = EmptyMap
    /\ output_file = <<>>

Next ==
    \/ planner_node
    \/ searcher_node
    \/ selector_node
    \/ watcher_node
    \/ checker_node
    \/ analyst_node
    \/ new_run

Spec == Init /\ [][Next]_vars

\* ------------------------------- a session whose run invocation seeds the metrics
StartTime == "t0"
\* the metrics the command line run supplies with the query
SeedMetrics == [start_time |-> StartTime, input_tokens |-> 0, output_tokens |-> 0, total_tokens |-> 0]

InitSeed ==
    /\ pc = "planner"
    /\ \E q \in UserQueries : bb = Merge(InitialState, [user_query |-> q, metrics |-> SeedMetrics])
    /\ max_loop_steps = 1
    /\ last_event = NoEvent
    /\ route = "none"
    /\ run = 1
    /\ calls = NoCalls
    /\ failure = "none"
    /\ contrib = [f \in AppendFields |-> <<>>]
    /\ checker_log = <<>>
    /\ gathered = <<>>
    /\ llm_reply = Reply("none", "none")
    /\ mutated = {}
    /\ text = <<>>
    /\ parsed = NotParsed
    /\ ranking = NoRanking
    /\ target_videos = <<>>
    /\ thread = "r1"
    /\ parked = EmptyMap
    /\ futures = EmptyMap
    /\ output_file = <<>>

NextSeed ==
    \/ planner_node
    \/ searcher_node
    \/ selector_node
    \/ watcher_node
    \/ checker_node
    \/ analyst_node

SpecSeed == InitSeed /\ [][NextSeed]_vars

\* ------------------------------------------------ the pool of the batch harness
\* the rows of the input file, by row_id
data == {"r1", "r2", "r3"}
MAX_WORKERS == 2

ExecutionErrorAnswer == "Error during execution: e"
CriticalWorkerError == "Critical Worker Error: e"
\* what a task that raised leaves in its future
Raised == [raised |-> TRUE]

\* the task of a row: stage is where worker_task stands, or "done" when the future
\* is completed and "collected" when the parent has taken it from as_completed
Task(stage, prediction, failure_kind, result) ==
    [stage |-> stage, prediction |-> prediction, failure |-> failure_kind, result |-> result]

\* the record of a row whose graph could not be built
InitErrorResult(row_id) == [row_id |-> row_id, error |-> "Init error: e", is_correct |-> FALSE]

\* what the judge reports: a verdict, an exception inside run_judge, or JSON that
\* is not an object
JudgeOutcomes == {"true", "false", "raise", "not_a_dict"}

\* WorkerResult that lets the exception of a judge reply that is not an object escape
WorkerResult_ErrorEscapes(row_id, prediction, outcome) ==
    IF outcome = "not_a_dict" THEN Raised
    ELSE [row_id |-> row_id, prediction |-> prediction, is_correct |-> (outcome = "true")]

\* the record worker_task returns after the run and the judge
WorkerResult(row_id, prediction, outcome) ==
    IF outcome = "not_a_dict"
    THEN [row_id |-> row_id, prediction |-> CriticalWorkerError, is_correct |-> FALSE]
    ELSE [row_id |-> row_id, prediction |-> prediction, is_correct |-> (outcome = "true")]

InitBatch ==
    /\ futures = [row_id \in data |-> Task("pending", "", "none", EmptyMap)]
    /\ output_file = <<>>
    /\ pc = "batch"
    /\ bb = InitialState
    /\ max_loop_steps = 1
    /\ last_event = NoEvent
    /\ route = "none"
    /\ run = 1
    /\ calls = NoCalls
    /\ failure = "none"
    /\ contrib = [f \in AppendFields |-> <<>>]
    /\ checker_log = <<>>
    /\ gathered = <<>>
    /\ llm_reply = Reply("none", "none")
    /\ mutated = {}
    /\ text = <<>>
    /\ parsed = NotParsed
    /\ ranking = NoRanking
    /\ target_videos = <<>>
    /\ thread = "r1"
    /\ parked = EmptyMap

BatchFrame ==
    UNCHANGED <<pc, bb, max_loop_steps, last_event, route, run, calls, failure, contrib, checker_log,
                gathered, llm_reply, mutated, text, parsed, ranking, target_videos, thread, parked>>

\* the rows whose task a worker process is running
Running == {row_id \in data : futures[row_id].stage \in {"build", "run", "judge"}}

\* a free worker process of the pool takes the task of a row
start_task ==
    \E row_id \in data :
        /\ futures[row_id].stage = "pending"
        /\ Cardinality(Running) < MAX_WORKERS
        /\ futures' = [futures EXCEPT ![row_id].stage = "build"]
        /\ UNCHANGED output_file
        /\ BatchFrame

\* worker_task builds its graph and its judge; an exception ends the task with a record
build_step ==
    \E row_id \in data, ok \in BOOLEAN :
        /\ futures[row_id].stage = "build"
        /\ futures' = [futures EXCEPT ![row_id] =
                          IF ok THEN Task("run", "", "none", EmptyMap)
                          ELSE Task("done", "", "init", InitErrorResult(row_id))]
        /\ UNCHANGED output_file
        /\ BatchFrame

\* run_agent: the answer of the run, or the labeled error when the stream raised
run_agent_step ==
    \E row_id \in data, ok \in BOOLEAN :
        /\ futures[row_id].stage = "run"
        /\ futures' = [futures EXCEPT ![row_id] =
                          IF ok THEN Task("judge", LlmAnswer, "none", EmptyMap)
                          ELSE Task("judge", ExecutionErrorAnswer, "run", EmptyMap)]
        /\ UNCHANGED output_file
        /\ BatchFrame

\* run_judge and the return of worker_task
run_judge_step ==
    \E row_id \in data, outcome \in JudgeOutcomes :
        /\ futures[row_id].stage = "judge"
        /\ futures' = [futures EXCEPT ![row_id] =
                          Task("done", futures[row_id].prediction,
                               IF outcome \in {"raise", "not_a_dict"} THEN "judge"
                               ELSE futures[row_id].failure,
                               WorkerResult(row_id, futures[row_id].prediction, outcome))]
        /\ UNCHANGED output_file
        /\ BatchFrame

\* the parent takes a completed future, in any order of completion, and appends its
\* record to the file; the exception of a task that raised is printed only
as_completed_step ==
    \E row_id \in data :
        /\ futures[row_id].stage = "done"
        /\ futures' = [futures EXCEPT ![row_id].stage = "collected"]
        /\ output_file' = IF futures[row_id].result = Raised THEN output_file
                          ELSE Append(output_file, futures[row_id].result)
        /\ BatchFrame

NextBatch ==
    \/ start_task
    \/ build_step
    \/ run_agent_step
    \/ run_judge_step
    \/ as_completed_step

\* a worker process that has a task goes on with it, and the parent waits for every future
SpecBatch == InitBatch /\ [][NextBatch]_vars /\ WF_vars(NextBatch)

\* --------------------------------------- the routing functions on any blackboard
RouteVideoIds == {"v1", "v2"}
RouteSignals == {"planner", "analyst", "ask_user", "unknown"}
RouteStores ==
    StoresOver(RouteVideoIds)
RouteBlackboards ==
    {Merge(InitialState, [user_query |-> "u1", video_store |-> st]) : st \in RouteStores}
    \cup {Merge(InitialState, [user_query |-> "u1", video_store |-> st, routing_signal |-> sg]) :
             st \in RouteStores, sg \in RouteSignals}

InitRoute ==
    /\ pc = "route"
    /\ bb \in RouteBlackboards
    /\ max_loop_steps = 1
    /\ last_event = NoEvent
    /\ route = "none"
    /\ run = 1
    /\ calls = NoCalls
    /\ failure = "none"
    /\ contrib = [f \in AppendFields |-> <<>>]
    /\ checker_log = <<>>
    /\ gathered = <<>>
    /\ llm_reply = Reply("none", "none")
    /\ mutated = {}
    /\ text = <<>>
    /\ parsed = NotParsed
    /\ ranking = NoRanking
    /\ target_videos = <<>>
    /\ thread = "r1"
    /\ parked = EmptyMap
    /\ futures = EmptyMap
    /\ output_file = <<>>

apply_route_selector ==
    /\ pc = "route"
    /\ route' = route_selector_output(bb)
    /\ pc' = "routed_selector"
    /\ UNCHANGED <<bb, max_loop_steps, last_event, run, calls, failure, contrib, checker_log, gathered, llm_reply, mutated, text, parsed, ranking, target_videos, thread, parked, futures, output_file>>

apply_route_checker ==
    /\ pc = "route"
    /\ route' = route_checker_output(bb)
    /\ pc' = "routed_checker"
    /\ UNCHANGED <<bb, max_loop_steps, last_event, run, calls, failure, contrib, checker_log, gathered, llm_reply, mutated, text, parsed, ranking, target_videos, thread, parked, futures, output_file>>

NextRoute ==
    \/ apply_route_selector
    \/ apply_route_checker

SpecRoute == InitRoute /\ [][NextRoute]_vars

\* ------------------------------------------- the metrics reducer on any two records
CounterValues == {1, 2}
CounterKeys == {"input_tokens", "output_tokens"}
SubMaps == UNION {[ks -> CounterValues] : ks \in SUBSET CounterKeys}
MergeCategories == {"jit_selector", "jit_watcher"}
\* metrics records: an optional global counter and optional per-category sub-maps
MetricsRecords ==
    UNION {{[k \in cats \cup tot |-> IF k \in cats THEN sub[k] ELSE n] :
               sub \in [cats -> SubMaps], n \in CounterValues} :
           cats \in SUBSET MergeCategories, tot \in {{}, {"total_tokens"}}}

InitMetrics ==
    /\ pc = "merge"
    /\ \E m \in MetricsRecords : bb = Merge(InitialState, [user_query |-> "u1", metrics |-> m])
    /\ max_loop_steps = 1
    /\ last_event = NoEvent
    /\ route = "none"
    /\ run = 1
    /\ calls = NoCalls
    /\ failure = "none"
    /\ contrib = [f \in AppendFields |-> <<>>]
    /\ checker_log = <<>>
    /\ gathered = <<>>
    /\ llm_reply = Reply("none", "none")
    /\ mutated = {}
    /\ text = <<>>
    /\ parsed = NotParsed
    /\ ranking = NoRanking
    /\ target_videos = <<>>
    /\ thread = "r1"
    /\ parked = EmptyMap
    /\ futures = EmptyMap
    /\ output_file = <<>>

\* the engine merges a partial update that holds only metrics
apply_metrics_update ==
    /\ pc = "merge"
    /\ \E m \in MetricsRecords :
         /\ bb' = Merge(bb, [metrics |-> m])
         /\ last_event' = [node |-> "merge", update |-> [metrics |-> m]]
    /\ pc' = "merged"
    /\ UNCHANGED <<max_loop_steps, route, run, calls, failure, contrib, checker_log, gathered, llm_reply, mutated, text, parsed, ranking, target_videos, thread, parked, futures, output_file>>

NextMetrics == apply_metrics_update

SpecMetrics == InitMetrics /\ [][NextMetrics]_vars

\* --------------------------- Selector and Watcher on any video_store of a thread
StoreVideoIds == {<<"A">>, <<"B">>}
StoreStores ==
    StoresOver(StoreVideoIds)
\* raw_candidates as a Searcher call leaves them
StoreCandidates ==
    {Dedup(r, {}, <<>>) : r \in SeqsUpTo({UrlWatch(v) : v \in StoreVideoIds}, 2)}
\* raw_candidates none of which has a URL
StoreCandidatesNoUrl == SeqsUpTo({[link |-> NoLink, id |-> NoLink]}, 2) \ {<<>>}

InitStore ==
    /\ pc \in {"selector", "watcher"}
    /\ \E st \in StoreStores, rc \in StoreCandidates \cup StoreCandidatesNoUrl :
         bb = Merge(InitialState, [user_query |-> "u1", video_store |-> st, raw_candidates |-> rc])
    /\ max_loop_steps = 1
    /\ last_event = NoEvent
    /\ route = "none"
    /\ run = 1
    /\ calls = NoCalls
    /\ failure = "none"
    /\ contrib = [f \in AppendFields |-> <<>>]
    /\ checker_log = <<>>
    /\ gathered = <<>>
    /\ llm_reply = Reply("none", "none")
    /\ mutated = {}
    /\ text = <<>>
    /\ parsed = NotParsed
    /\ ranking = NoRanking
    /\ target_videos = <<>>
    /\ thread = "r1"
    /\ parked = EmptyMap
    /\ futures = EmptyMap
    /\ output_file = <<>>

NextStore ==
    \/ selector_node
    \/ watcher_node

SpecStore == InitStore /\ [][NextStore]_vars

\* ------------------------------------- one Searcher call on any list of results
UrlWatchRadio(id, seed) == UrlWatch(id) \o <<"&", "s", "=", "1", "&", "r", "v", "=">> \o seed
UrlShorts(id) == <<ShortsPrefix, "/shorts/">> \o id
UrlShortsAt(id) == UrlShorts(id) \o <<"?", "t", "=", "1">>
UrlShort(id) == <<ShortPrefix, "youtu.be/">> \o id
UrlShortAt(id) == UrlShort(id) \o <<"?", "t", "=", "1">>
UrlOther == <<"https://vimeo.com/1">>
\* the URLs of one video that differ only in their query parameters, per form of URL
WatchUrlsOf(v) == {UrlWatch(v), UrlWatchAt(v)} \cup {UrlWatchRadio(v, w) : w \in StoreVideoIds}
ShortsUrlsOf(v) == {UrlShorts(v), UrlShortsAt(v)}
ShortUrlsOf(v) == {UrlShort(v), UrlShortAt(v)}
UrlsOf(v) == WatchUrlsOf(v) \cup ShortsUrlsOf(v) \cup ShortUrlsOf(v)
AnyUrls == (UNION {UrlsOf(v) : v \in StoreVideoIds}) \cup {UrlOther, NoLink}
AnyResults == SeqsUpTo(AnyUrls, MaxResults)

InitSearch ==
    /\ pc = "searcher"
    /\ bb = Merge(InitialState, [user_query |-> "u1", current_search_queries |-> <<LlmQuery>>])
    /\ max_loop_steps = 1
    /\ last_event = NoEvent
    /\ route = "none"
    /\ run = 1
    /\ calls = NoCalls
    /\ failure = "none"
    /\ contrib = [f \in AppendFields |-> <<>>]
    /\ checker_log = <<>>
    /\ gathered \in AnyResults
    /\ llm_reply = Reply("none", "none")
    /\ mutated = {}
    /\ text = <<>>
    /\ parsed = NotParsed
    /\ ranking = NoRanking
    /\ target_videos = <<>>
    /\ thread = "r1"
    /\ parked = EmptyMap
    /\ futures = EmptyMap
    /\ output_file = <<>>

\* the Searcher call on the results held
NextSearch == SearcherCall({[results |-> gathered, texts |-> <<>>]})

SpecSearch == InitSearch /\ [][NextSearch]_vars

\* ------------------------- a run of two rounds whose searches never find a video
\* no result at all, or only results without a link; web text may still be found
NoResultOutcomes ==
    {[results |-> r, texts |-> t] : r \in SeqsUpTo({NoLink}, MaxResults), t \in {<<>>, <<"s1">>}}

InitNoResults ==
    /\ pc = "planner"
    /\ \E q \in UserQueries : bb = Merge(InitialState, [user_query |-> q])
    /\ max_loop_steps = 2
    /\ last_event = NoEvent
    /\ route = "none"
    /\ run = 1
    /\ calls = NoCalls
    /\ failure = "none"
    /\ contrib = [f \in AppendFields |-> <<>>]
    /\ checker_log = <<>>
    /\ gathered = <<>>
    /\ llm_reply = Reply("none", "none")
    /\ mutated = {}
    /\ text = <<>>
    /\ parsed = NotParsed
    /\ ranking = NoRanking
    /\ target_videos = <<>>
    /\ thread = "r1"
    /\ parked = EmptyMap
    /\ futures = EmptyMap
    /\ output_file = <<>>

NextNoResults ==
    \/ planner_node
    \/ SearcherCall(NoResultOutcomes)
    \/ selector_node
    \/ checker_node
    \/ analyst_node

SpecNoResults == InitNoResults /\ [][NextNoResults]_vars

\* ------------------------------------------- two sessions, their Stages interleaved
Rows == {"r1", "r2"}
SessionQuery == [r1 |-> "u1", r2 |-> "u2"]

\* thread_id that leaves out the row
thread_id_NoRow(row_id) == <<"eval_proc">>

\* the thread id a session runs under
thread_id(row_id) == <<"eval_proc", row_id>>

\* the run of the session at its turn
Session ==
    [pc |-> pc, bb |-> bb, last_event |-> last_event, route |-> route, run |-> run,
     calls |-> calls, failure |-> failure, contrib |-> contrib, checker_log |-> checker_log,
     llm_reply |-> llm_reply, mutated |-> mutated]

\* a session before its first Stage
StartOf(row_id) ==
    [pc |-> "planner", bb |-> Merge(InitialState, [user_query |-> SessionQuery[row_id]]),
     last_event |-> NoEvent, route |-> "none", run |-> 1, calls |-> NoCalls, failure |-> "none",
     contrib |-> [f \in AppendFields |-> <<>>], checker_log |-> <<>>,
     llm_reply |-> Reply("none", "none"), mutated |-> {}]

InitSessions ==
    /\ thread = "r1"
    /\ parked = [k \in {thread_id(r) : r \in Rows \ {"r1"}} |->
                    StartOf(CHOOSE r \in Rows \ {"r1"} : thread_id(r) = k)]
    /\ pc = StartOf("r1").pc
    /\ bb = StartOf("r1").bb
    /\ max_loop_steps = 1
    /\ last_event = NoEvent
    /\ route = "none"
    /\ run = 1
    /\ calls = NoCalls
    /\ failure = "none"
    /\ contrib = [f \in AppendFields |-> <<>>]
    /\ checker_log = <<>>
    /\ gathered = <<>>
    /\ llm_reply = Reply("none", "none")
    /\ mutated = {}
    /\ text = <<>>
    /\ parsed = NotParsed
    /\ ranking = NoRanking
    /\ target_videos = <<>>
    /\ futures = EmptyMap
    /\ output_file = <<>>

\* the scheduler turns to another session: the run at its turn stays stored under its thread
\* id, the run stored under the thread id of the other session goes on
switch_session ==
    \E other \in Rows \ {thread} :
        LET stored == [k \in (DOMAIN parked) \cup {thread_id(thread)} |->
                          IF k = thread_id(thread) THEN Session ELSE parked[k]]
            resumed == stored[thread_id(other)]
        IN  /\ thread' = other
            /\ parked' = [k \in (DOMAIN stored) \ {thread_id(other)} |-> stored[k]]
            /\ pc' = resumed.pc
            /\ bb' = resumed.bb
            /\ last_event' = resumed.last_event
            /\ route' = resumed.route
            /\ run' = resumed.run
            /\ calls' = resumed.calls
            /\ failure' = resumed.failure
            /\ contrib' = resumed.contrib
            /\ checker_log' = resumed.checker_log
            /\ llm_reply' = resumed.llm_reply
            /\ mutated' = resumed.mutated
            /\ UNCHANGED <<max_loop_steps, gathered, text, parsed, ranking, target_videos, futures, output_file>>

NextSessions ==
    \/ planner_node
    \/ SearcherCall(NoResultOutcomes)
    \/ selector_node
    \/ checker_node
    \/ analyst_node
    \/ switch_session

SpecSessions == InitSessions /\ [][NextSessions]_vars

\* ------------------------------------- one Planner call on any reply with a plan
\* a reply whose search_queries is a JSON string, not an array: the text of one query,
\* a sequence of characters
QueryCharacters == {"q", "a"}
QueryStrings == SeqsUpTo(QueryCharacters, max_queries + 2) \ {<<>>}
AnyPlannerReplies ==
    PlannerReplies \cup {[kind |-> "string", queries |-> str] : str \in QueryStrings}
\* the blackboard of a thread when a round starts
PlanBlackboards ==
    {Merge(InitialState, [user_query |-> u]) : u \in UserQueries}
    \cup {Merge(InitialState, [user_query |-> u, plan_trace |-> trace, metrics |-> m,
                                current_search_queries |-> old, tried_queries |-> tried,
                                loop_step |-> Len(trace)]) :
             u \in UserQueries, old \in SeqsUpTo(UserQueries \cup {LlmQuery}, 1),
             tried \in SeqsUpTo({LlmQuery}, 1),
             m \in {update_token_metrics(EmptyMap, usage, NoCategory) : usage \in TokenUsages},
             trace \in SeqsUpTo({FallbackThought, LlmThought}, MaxN) \ {<<>>}}

InitPlan ==
    /\ pc = "planner"
    /\ bb \in PlanBlackboards
    /\ max_loop_steps = MaxN + 1
    /\ last_event = NoEvent
    /\ route = "none"
    /\ run = 1
    /\ calls = NoCalls
    /\ failure = "none"
    /\ contrib = [f \in AppendFields |-> <<>>]
    /\ checker_log = <<>>
    /\ gathered = <<>>
    /\ llm_reply = Reply("none", "none")
    /\ mutated = {}
    /\ text = <<>>
    /\ parsed = NotParsed
    /\ ranking = NoRanking
    /\ target_videos = <<>>
    /\ thread = "r1"
    /\ parked = EmptyMap
    /\ futures = EmptyMap
    /\ output_file = <<>>

NextPlan == PlannerCall(AnyPlannerReplies)

SpecPlan == InitPlan /\ [][NextPlan]_vars

\* ------------------------------ one selection on any store, candidates and reply
SelectVideoIds == {<<"A">>, <<"B">>, <<"C">>}
\* raw_candidates as a Searcher call leaves them
SelectCandidates ==
    {Dedup(r, {}, <<>>) : r \in SeqsUpTo({UrlWatch(v) : v \in SelectVideoIds}, MaxResults + 1)}

InitSelect ==
    /\ pc = "select"
    /\ \E st \in StoreStores, rc \in SelectCandidates \ {<<>>} :
         bb = Merge(InitialState, [user_query |-> "u1", video_store |-> st, raw_candidates |-> rc])
    /\ max_loop_steps = 1
    /\ last_event = NoEvent
    /\ route = "none"
    /\ run = 1
    /\ calls = NoCalls
    /\ failure = "none"
    /\ contrib = [f \in AppendFields |-> <<>>]
    /\ checker_log = <<>>
    /\ gathered = <<>>
    /\ llm_reply = Reply("none", "none")
    /\ mutated = {}
    /\ text = <<>>
    /\ parsed = NotParsed
    /\ ranking = NoRanking
    /\ target_videos = <<>>
    /\ thread = "r1"
    /\ parked = EmptyMap
    /\ futures = EmptyMap
    /\ output_file = <<>>

\* the ranking call of selector_node, its targets and the store it returns
apply_select ==
    /\ pc = "select"
    /\ \E reply \in SelectorReplies :
         LET valid_candidates == ValidCandidates(bb["raw_candidates"])
             targets == SelectTargets(reply, valid_candidates)
         IN  /\ ranking' = reply
             /\ target_videos' = targets
             /\ bb' = Merge(bb, [video_store |-> UpdateStore(bb["video_store"], targets)])
    /\ pc' = "selected"
    /\ UNCHANGED <<max_loop_steps, last_event, route, run, calls, failure, contrib, checker_log,
                   gathered, llm_reply, mutated, text, parsed, thread, parked, futures, output_file>>

NextSelect == apply_select

SpecSelect == InitSelect /\ [][NextSelect]_vars

\* ------------------------------------------------- the parser on any short text
MaxText == 6
Texts == SeqsUpTo(JsonChars, MaxText)

InitParse ==
    /\ pc = "parse"
    /\ bb = InitialState
    /\ max_loop_steps = 1
    /\ last_event = NoEvent
    /\ route = "none"
    /\ run = 1
    /\ calls = NoCalls
    /\ failure = "none"
    /\ contrib = [f \in AppendFields |-> <<>>]
    /\ checker_log = <<>>
    /\ gathered = <<>>
    /\ llm_reply = Reply("none", "none")
    /\ mutated = {}
    /\ text \in Texts
    /\ parsed = NotParsed
    /\ ranking = NoRanking
    /\ target_videos = <<>>
    /\ thread = "r1"
    /\ parked = EmptyMap
    /\ futures = EmptyMap
    /\ output_file = <<>>

apply_extract_json ==
    /\ pc = "parse"
    /\ parsed' = extract_json_from_text(text)
    /\ pc' = "parsed"
    /\ UNCHANGED <<bb, max_loop_steps, last_event, route, run, calls, failure, contrib, checker_log,
                   gathered, llm_reply, mutated, text, ranking, target_videos, thread, parked, futures, output_file>>

NextParse == apply_extract_json

SpecParse == InitParse /\ [][NextParse]_vars

\* ---------------------------------------------------------------------- claims

\* C1: a first run (loop_step 0 at its start) with max_loop_steps = N does not fail
\* on anything a collaborator returns, makes at most N Checker calls, and when it has
\* ended it has gone through planner, searcher, selector and checker exactly N times
\* each and through analyst once.
C1_RunEndsAfterNCycles ==
    (run = 1 /\ failure # "collaborator_error") =>
        /\ pc # "failed"
        /\ calls["checker"] <= max_loop_steps
        /\ pc = "END" =>
              /\ \A n \in {"planner", "searcher", "selector", "checker"} : calls[n] = max_loop_steps
              /\ calls["analyst"] = 1
              /\ last_event.node = "analyst"

\* C2: every Checker call returns loop_step + 1, and of the first N Checker calls of a
\* session the first N-1 signal "planner" and the N-th signals "analyst", whatever
\* else the blackboard holds.
C2_CheckerCountsAndSignals ==
    \A i \in 1..Len(checker_log) :
        /\ checker_log[i].after = checker_log[i].before + 1
        /\ checker_log[i].before = i - 1
        /\ i < max_loop_steps => checker_log[i].signal = "planner"
        /\ i = max_loop_steps => checker_log[i].signal = "analyst"

C2_Witness ==
    /\ max_loop_steps = 2
    /\ Len(checker_log) = 2
    /\ checker_log[1].signal = "planner"
    /\ checker_log[2].signal = "analyst"
    /\ "video_store" \in DOMAIN bb /\ DOMAIN bb["video_store"] # {}

\* C3: route_selector_output answers "watcher" exactly when some resource of
\* video_store is candidate or analyzing, and "checker" in every other case.
C3_SelectorRoute ==
    pc = "routed_selector" =>
        LET waiting == \E v \in DOMAIN bb["video_store"] :
                          \/ bb["video_store"][v].status = "candidate"
                          \/ bb["video_store"][v].status = "analyzing"
        IN  /\ waiting => route = "watcher"
            /\ ~waiting => route = "checker"

C3_Witness ==
    /\ pc = "routed_selector"
    /\ route = "watcher"
    /\ DOMAIN bb["video_store"] = RouteVideoIds
    /\ bb["video_store"]["v1"].status = "analyzing"
    /\ bb["video_store"]["v2"].status = "verified"

\* C4 as stated: route_checker_output answers "ask_user" for the signal "ask_user",
\* "analyst" for "analyst" and "planner" for any other or no signal.
C4_CheckerRouteAsStated ==
    pc = "routed_checker" =>
        IF "routing_signal" \in DOMAIN bb /\ bb["routing_signal"] = "ask_user" THEN route = "ask_user"
        ELSE IF "routing_signal" \in DOMAIN bb /\ bb["routing_signal"] = "analyst" THEN route = "analyst"
        ELSE route = "planner"

\* C4 amended: route_checker_output answers "user_proxy" for the signal "ask_user",
\* "analyst" for "analyst" and "planner" for any other or no signal.
C4_CheckerRoute ==
    pc = "routed_checker" =>
        IF "routing_signal" \in DOMAIN bb /\ bb["routing_signal"] = "ask_user" THEN route = "user_proxy"
        ELSE IF "routing_signal" \in DOMAIN bb /\ bb["routing_signal"] = "analyst" THEN route = "analyst"
        ELSE route = "planner"

C4_Witness ==
    /\ pc = "routed_checker"
    /\ "routing_signal" \in DOMAIN bb
    /\ bb["routing_signal"] = "ask_user"
    /\ route = "user_proxy"

\* C5: whatever the routing signal, the label route_checker_output returns is a key
\* of the edge table declared for the checker node.
C5_CheckerEdgeTotal ==
    pc = "routed_checker" => route \in DOMAIN CheckerEdges

\* C6: a run that is over has streamed, as its last event, an analyst event whose
\* partial update holds final_answer, whatever the collaborators did.
C6_RunEndsWithAnalystEvent ==
    pc \in {"END", "failed"} =>
        /\ pc = "END"
        /\ last_event.node = "analyst"
        /\ "final_answer" \in DOMAIN last_event.update

\* C7: no failure of a collaborator (an error it raises, malformed output it returns)
\* leaves a node: no run is ever failed.
C7_NoFailureLeavesAStage == failure = "none"

\* C8: when the Planner cannot parse the reply into a plan, its partial update holds
\* current_search_queries = [user_query] and plan_trace gains exactly one entry, the
\* note of the fallback.
C8_PlannerFallback ==
    [][(pc = "planner" /\ llm_reply'.node = "planner"
            /\ llm_reply'.kind \in {"garbage", "array", "unsliceable"})
        => (/\ pc' = "searcher"
            /\ last_event'.node = "planner"
            /\ last_event'.update["current_search_queries"] = <<bb["user_query"]>>
            /\ bb'["current_search_queries"] = <<bb["user_query"]>>
            /\ Len(last_event'.update["plan_trace"]) = 1
            /\ bb'["plan_trace"] = Append(bb["plan_trace"], FallbackThought))]_vars

C8_Witness ==
    /\ last_event.node = "planner"
    /\ llm_reply = Reply("planner", "garbage")
    /\ bb["current_search_queries"] = <<bb["user_query"]>>
    /\ Len(bb["plan_trace"]) = 2
    /\ bb["plan_trace"][2] = FallbackThought

\* C9: every append field is the concatenation, in order and with duplicates, of what
\* the partial updates so far contributed to it, and each step leaves its old value
\* as a prefix of its new one.
C9_AppendFieldsConcatenate ==
    /\ [](\A f \in AppendFields : bb[f] = Flatten(contrib[f]))
    /\ [][\A f \in AppendFields : IsPrefix(bb[f], bb'[f])]_vars

C9_Witness ==
    /\ Len(contrib["tried_queries"]) = 2
    /\ Len(bb["tried_queries"]) = 2
    /\ bb["tried_queries"][1] = bb["tried_queries"][2]
    /\ Len(bb["text_search_context"]) = 2

\* field f is not in the partial update of this step and keeps its value, or lack of one
OmittedKept(f) ==
    f \notin DOMAIN last_event'.update =>
        /\ (f \in DOMAIN bb') <=> (f \in DOMAIN bb)
        /\ f \in DOMAIN bb => bb'[f] = bb[f]

\* C10: a replace field holds what the latest partial update that contained it gave,
\* and a node whose partial update omits the field leaves the field as it was.
C10_ReplaceFieldsLatest ==
    /\ [](\A f \in ReplaceFields \cap DOMAIN last_event.update :
             f \in DOMAIN bb /\ bb[f] = last_event.update[f])
    /\ [][(pc \in Stages) => (\A f \in ReplaceFields : OmittedKept(f))]_vars

C10_Witness ==
    /\ last_event.node = "searcher"
    /\ "current_search_queries" \notin DOMAIN last_event.update
    /\ bb["current_search_queries"] = <<LlmQuery>>
    /\ "loop_step" \in DOMAIN bb /\ bb["loop_step"] = 1
    /\ bb["raw_candidates"] = <<>>
    /\ Len(bb["tried_queries"]) = 2

\* C11 as stated: the merge of a partial metrics update is two levels deep: a top-level
\* key of the partial overwrites, but where the key holds a per-category sub-map the
\* partial's sub-map is merged key by key, so counters absent from it are kept.
C11_TwoLevelMergeAsStated ==
    [][(pc = "merge") =>
        (LET cur == bb["metrics"]
             upd == last_event'.update["metrics"]
             new == bb'["metrics"]
         IN  \A k \in (DOMAIN cur) \cap (DOMAIN upd) \cap MetricCategories :
                \A c \in DOMAIN cur[k] :
                    /\ c \in DOMAIN new[k]
                    /\ c \notin DOMAIN upd[k] => new[k][c] = cur[k][c])]_vars

\* C11 amended: the merge of a partial metrics update is one level deep: the merged
\* record has the keys of both, a top-level key of the partial takes the partial's
\* value whole (a sub-map replaces the current sub-map), and a top-level key absent
\* from the partial keeps its current value.
C11_OneLevelMerge ==
    [][(pc = "merge") =>
        (LET cur == bb["metrics"]
             upd == last_event'.update["metrics"]
             new == bb'["metrics"]
         IN  /\ DOMAIN new = (DOMAIN cur) \cup (DOMAIN upd)
             /\ \A k \in DOMAIN upd : new[k] = upd[k]
             /\ \A k \in (DOMAIN cur) \ (DOMAIN upd) : new[k] = cur[k])]_vars

C11_Witness ==
    /\ pc = "merged"
    /\ last_event.update["metrics"] = [jit_watcher |-> [input_tokens |-> 2]]
    /\ bb["metrics"] = [jit_watcher |-> [input_tokens |-> 2],
                        jit_selector |-> [output_tokens |-> 1], total_tokens |-> 1]

\* C12: a Selector pass leaves the status of every resource that is verified or watched
\* as it is, also when it selects that video again; it never becomes candidate.
C12_SelectorKeepsVerified ==
    [][(pc = "selector") =>
        (\A v \in DOMAIN bb["video_store"] :
            bb["video_store"][v].status \in {"verified", "watched"} =>
                /\ v \in DOMAIN bb'["video_store"]
                /\ bb'["video_store"][v].status = bb["video_store"][v].status)]_vars

\* the only raw candidate is video A, the Selector's model chose it, A stays watched
C12_Witness ==
    /\ last_event.node = "selector"
    /\ llm_reply = Reply("selector", "list")
    /\ Len(bb["raw_candidates"]) = 1
    /\ bb["raw_candidates"][1].id = <<"A">>
    /\ bb["video_store"][<<"A">>].status = "watched"
    /\ route = "checker"

\* a step from status s to status t follows candidate -> analyzing/watched -> verified,
\* with rejected entered only from candidate or analyzing
StatusRank(s) == IF s = "candidate" THEN 0 ELSE IF s \in {"analyzing", "watched"} THEN 1 ELSE 2
StatusForward(s, t) ==
    \/ s = t
    \/ t = "rejected" /\ s \in {"candidate", "analyzing"}
    \/ s # "rejected" /\ t # "rejected" /\ StatusRank(s) <= StatusRank(t) /\ t # "candidate"

C14_WatcherVerifiesCandidates ==
    [][(pc = "watcher") =>
        (/\ last_event'.node = "watcher"
         /\ DOMAIN last_event'.update["video_store"] = DOMAIN bb["video_store"]
         /\ \A v \in DOMAIN bb["video_store"] :
               IF bb["video_store"][v].status = "candidate"
               THEN last_event'.update["video_store"][v].status = "verified"
               ELSE last_event'.update["video_store"][v] = bb["video_store"][v])]_vars

\* the inspection call failed and no transcript was fetched: only summary tells
C14_Witness ==
    /\ last_event.node = "watcher"
    /\ DOMAIN bb["video_store"] = StoreVideoIds
    /\ bb["video_store"][<<"A">>] = [video_id |-> <<"A">>, status |-> "verified", summary |-> ErrorSummary, transcript |-> ""]
    /\ bb["video_store"][<<"B">>].status = "verified"
    /\ bb["video_store"][<<"B">>].summary = JsonIrrelevant

\* C15: with an empty video_store the Analyst answers the fixed "no videos" text, with no
\* frame and no transcript text gathered it answers the fixed "no content" text, and in
\* both cases it does not call the synthesis model; the model is called only with at
\* least one frame or transcript text in the request.
C15_FixedAnswersWithoutContent ==
    (pc = "END" /\ last_event.node = "analyst") =>
        /\ DOMAIN Get(bb, "video_store", EmptyStore) = {} =>
              (bb["final_answer"] = NoVideosAnswer /\ llm_reply.kind = "none")
        /\ llm_reply.kind # "none" => llm_reply.content # {}
        /\ (DOMAIN Get(bb, "video_store", EmptyStore) # {} /\ llm_reply.kind = "none") =>
              bb["final_answer"] = NoContentAnswer

\* what run_agent of the batch harness returns for a first run that is over
NoAnswerGenerated == "No answer generated."
run_agent_final_answer ==
    IF pc = "failed" THEN ExecutionErrorAnswer
    ELSE IF last_event.node = "analyst" /\ "final_answer" \in DOMAIN last_event.update
         THEN last_event.update["final_answer"]
         ELSE NoAnswerGenerated

\* C16: the final answer of a run is the synthesis model's text, one of the two fixed
\* answers or a string labeled as an error, on the blackboard and in the batch harness;
\* when the synthesis call raises, the Analyst ends the run with the "Error:" answer.
C16_FinalAnswerKinds ==
    /\ []("final_answer" \in DOMAIN bb =>
             bb["final_answer"] \in {LlmAnswer, NoVideosAnswer, NoContentAnswer, ErrorAnswer})
    /\ [](pc \in {"END", "failed"} =>
             run_agent_final_answer \in {LlmAnswer, NoVideosAnswer, NoContentAnswer, ErrorAnswer,
                                         ExecutionErrorAnswer})
    /\ [][(pc = "analyst" /\ llm_reply'.node = "analyst" /\ llm_reply'.kind = "raise")
            => (pc' = "END" /\ bb'["final_answer"] = ErrorAnswer
                /\ last_event' = [node |-> "analyst",
                                  update |-> [final_answer |-> ErrorAnswer,
                                              metrics |-> bb["metrics"]]])]_vars

C16_Witness ==
    /\ pc = "END"
    /\ llm_reply.node = "analyst" /\ llm_reply.kind = "raise"
    /\ llm_reply.content = {"frames", "transcript"}
    /\ bb["final_answer"] = ErrorAnswer
    /\ run_agent_final_answer = ErrorAnswer

\* positions of the gathered results that are URLs of the set urls
GatheredAt(urls) == {i \in 1..Len(gathered) : gathered[i] \in urls}
\* positions of the returned candidates whose link is a URL of the set urls
ReturnedAt(urls) == {k \in 1..Len(bb["raw_candidates"]) : bb["raw_candidates"][k].link \in urls}

\* C17: when two of the results gathered by a Searcher call are URLs of one video that
\* differ only in their query parameters, raw_candidates holds exactly one entry of
\* that video, the first that was gathered; the returned identifiers are pairwise distinct.
C17_OneCandidatePerVideo ==
    (pc = "selector" /\ last_event.node = "searcher") =>
        LET out == bb["raw_candidates"]
        IN  /\ \A i \in 1..Len(out) : \A j \in 1..Len(out) : i # j => out[i].id # out[j].id
            /\ \A v \in StoreVideoIds : \A urls \in {WatchUrlsOf(v), ShortsUrlsOf(v), ShortUrlsOf(v)} :
                  Cardinality(GatheredAt(urls)) >= 2 =>
                      /\ Cardinality(ReturnedAt(UrlsOf(v))) = 1
                      /\ \A k \in ReturnedAt(UrlsOf(v)) : \A i \in GatheredAt(UrlsOf(v)) :
                            (\A h \in GatheredAt(UrlsOf(v)) : i <= h) => out[k].link = gathered[i]

\* C18: a Searcher call that has queries to execute returns exactly those queries, in
\* order, as its contribution to tried_queries, whatever the providers give, so that
\* tried_queries grows by them.
C18_TriedQueriesAppended ==
    [][(pc = "searcher" /\ Get(bb, "current_search_queries", <<>>) # <<>>)
        => (/\ last_event'.node = "searcher"
            /\ last_event'.update["tried_queries"] = bb["current_search_queries"]
            /\ bb'["tried_queries"] = bb["tried_queries"] \o bb["current_search_queries"])]_vars

\* the two Checker calls of the scenario
TwoRoundsLog ==
    <<[before |-> 0, after |-> 1, signal |-> "planner"],
      [before |-> 1, after |-> 2, signal |-> "analyst"]>>

\* C19: with max_loop_steps = 2 and searches that never return a candidate, the Selector
\* routes to "checker" in both rounds and the Watcher never runs, the Checker gives
\* loop_step 1 then 2 with signal "planner" then "analyst", and the Analyst gets an
\* empty video_store and returns the fixed "no videos" answer.
C19_TwoEmptyRounds ==
    /\ pc # "watcher" /\ calls["watcher"] = 0
    /\ last_event.node = "selector" => (route = "checker" /\ pc = "checker")
    /\ IsPrefix(checker_log, TwoRoundsLog)
    /\ pc = "analyst" => (checker_log = TwoRoundsLog /\ bb["video_store"] = EmptyStore)
    /\ pc = "END" =>
          /\ checker_log = TwoRoundsLog
          /\ calls["selector"] = 2
          /\ bb["video_store"] = EmptyStore
          /\ last_event = [node |-> "analyst", update |-> [final_answer |-> NoVideosAnswer]]
          /\ bb["final_answer"] = NoVideosAnswer

C19_Witness ==
    /\ pc = "END"
    /\ calls = [s \in Stages |-> IF s = "watcher" THEN 0 ELSE IF s = "analyst" THEN 1 ELSE 2]
    /\ bb["loop_step"] = 2
    /\ bb["tried_queries"] = <<LlmQuery, LlmQuery>>
    /\ bb["final_answer"] = NoVideosAnswer

\* the Stages whose event may come right after the event of a Stage
EventSuccessors ==
    [planner |-> {"searcher"}, searcher |-> {"selector"}, selector |-> {"watcher", "checker"},
     watcher |-> {"checker"}, checker |-> {"planner", "analyst"}, analyst |-> {}]

\* C20: each step of a run executes one Stage, the one the run is at, and a Stage that
\* returns emits one event; the first event of a run is the Planner's, the event after a
\* Planner event is the Searcher's, after Searcher Selector's, after Selector Watcher's
\* or Checker's, after Watcher Checker's, after Checker Planner's or Analyst's, and no
\* event follows the Analyst's.
C20_EventOrder ==
    /\ [][(pc \in Stages) =>
            (/\ calls' = [calls EXCEPT ![pc] = @ + 1]
             /\ pc' # "failed" => (last_event'.node = pc /\ last_event' # last_event)
             /\ pc' = "failed" => last_event' = last_event)]_vars
    /\ [][(last_event' # last_event /\ last_event'.node # "none") =>
            IF last_event.node = "none" THEN last_event'.node = "planner"
            ELSE last_event'.node \in EventSuccessors[last_event.node]]_vars
    /\ [][(pc \notin Stages) => (calls' = NoCalls /\ last_event' = NoEvent)]_vars
    /\ [](last_event.node = "analyst" => pc = "END")

C20_Witness ==
    /\ run = 1
    /\ last_event.node = "checker"
    /\ pc = "planner"
    /\ calls = [s \in Stages |-> IF s = "analyst" THEN 0 ELSE 1]

\* C21: a further run on a thread starts, at its first Stage, from the blackboard the
\* previous run ended with: every field the input does not supply (loop_step,
\* video_store, tried_queries, plan_trace, routing_signal, final_answer, metrics, ...)
\* has the value, or the lack of one, it had at the end of that run.
C21_ThreadResumes ==
    [][(pc = "END") =>
        (/\ pc' = "planner"
         /\ \A f \in Fields \ {"user_query"} :
               /\ (f \in DOMAIN bb') <=> (f \in DOMAIN bb)
               /\ f \in DOMAIN bb => bb'[f] = bb[f])]_vars

C21_Witness ==
    /\ run = 2
    /\ pc = "planner"
    /\ calls = NoCalls
    /\ bb["loop_step"] = 1
    /\ bb["routing_signal"] = "analyst"
    /\ bb["final_answer"] = LlmAnswer
    /\ DOMAIN bb["video_store"] # {}
    /\ Len(bb["tried_queries"]) = 1 /\ Len(bb["plan_trace"]) = 1
    /\ "jit_analyst" \in DOMAIN bb["metrics"]

\* C23: no Stage changes the state object it receives: when a Stage has returned, the
\* video_store, every resource in it and the metrics with their sub-maps are in that object
\* as they were received, all changes being in the returned update only.
C23_SnapshotUntouched == mutated = {}

\* C24: every field a Stage returns, on every return path, is a field AgentState declares,
\* and that field has exactly one reducer: append, the metrics merge, or replace.
C24_ReturnedFieldsDeclared ==
    \A f \in DOMAIN last_event.update :
        /\ f \in Fields
        /\ Cardinality({r \in {AppendFields, {MetricsField}, ReplaceFields} : f \in r}) = 1

C24_Witness ==
    /\ last_event = [node |-> "searcher", update |-> [raw_candidates |-> <<>>]]
    /\ calls["planner"] = 1
    /\ bb["current_search_queries"] = <<>>

\* C27: extract_json_from_text tries the fenced block, then the largest bracketed
\* substring, then the whole text, and goes on to the next strategy whenever one does not
\* yield well-formed JSON; it raises only when all three fail.
C27_RaisesOnlyIfAllFail ==
    (pc = "parsed" /\ parsed = JsonError) =>
        /\ ~IsJson(FencedBlock(text))
        /\ \A i \in 1..Len(BracketedCandidates(text)) : ~IsJson(BracketedCandidates(text)[i])
        /\ ~IsJson(text)

\* C25: the Selector picks at most top_k targets and adds at most top_k entries to the
\* store, each new entry with status candidate; when the ranking fails (the call raises,
\* the reply does not parse, it is neither a list nor a map, or it names no valid index)
\* the targets are exactly the first top_k valid candidates, in input order.
C25_SelectorTargets ==
    [][(pc = "select") =>
        LET valid == SelectSeq(bb["raw_candidates"], LAMBDA raw : raw.link # NoLink)
            added == (DOMAIN bb'["video_store"]) \ (DOMAIN bb["video_store"])
            failed == \/ ranking'.kind \in {"raise", "garbage", "scalar"}
                      \/ \A i \in 1..Len(ranking'.indices) :
                            ~(0 <= ranking'.indices[i] /\ ranking'.indices[i] < Len(valid))
            first == IF Len(valid) < top_k THEN Len(valid) ELSE top_k
        IN  /\ Len(target_videos') <= top_k
            /\ Cardinality(added) <= top_k
            /\ \A v \in added : bb'["video_store"][v].status = "candidate"
            /\ failed => target_videos' = [i \in 1..first |-> valid[i]]]_vars

C25_Witness ==
    /\ pc = "selected"
    /\ ranking = [kind |-> "list", indices |-> <<0 - 1>>]
    /\ Len(bb["raw_candidates"]) > top_k
    /\ target_videos = SubSeq(bb["raw_candidates"], 1, top_k)
    /\ DOMAIN bb["video_store"] = {bb["raw_candidates"][1].id}

\* C26: the request the Analyst sends holds material only of resources whose status is
\* verified, whether it was gathered from the relevant windows or, when no window gave
\* anything, from the full transcripts.
C26_RequestFromVerifiedOnly ==
    llm_reply.node = "analyst" =>
        \A v \in llm_reply.sources : bb["video_store"][v].status = "verified"

C26_Witness ==
    /\ llm_reply.node = "analyst" /\ llm_reply.kind = "answer"
    /\ llm_reply.content = {"transcript"}
    /\ llm_reply.sources # {}
    /\ \A v \in DOMAIN bb["video_store"] : bb["video_store"][v].summary # JsonRelevant

\* C28: after every Planner execution, on the parsed path and on the fallback path alike,
\* current_search_queries is a list of at most max_queries queries: what the reply planned
\* as queries, or the user query.
C28_QueriesCapped ==
    last_event.node = "planner" =>
        LET queries == bb["current_search_queries"]
        IN  /\ Len(queries) <= max_queries
            /\ \A i \in 1..Len(queries) : queries[i] \in UserQueries \cup {LlmQuery}

\* C29: in every reachable state routing_signal, read with its default, is "planner" or
\* "analyst": no Stage writes "ask_user", and the routing function of the Checker never
\* returns the label of the ask-user route.
C29_NeverAsksUser ==
    /\ Get(bb, "routing_signal", "planner") \in {"planner", "analyst"}
    /\ "routing_signal" \in DOMAIN last_event.update =>
          last_event.update["routing_signal"] \in {"planner", "analyst"}
    /\ route # "user_proxy"

C29_Witness ==
    /\ last_event = [node |-> "checker", update |-> [loop_step |-> 1, routing_signal |-> "planner"]]
    /\ bb["routing_signal"] = "planner"
    /\ route = "planner"
    /\ pc = "planner"

\* C30: a run makes max(1, N - s) Checker calls, N being max_loop_steps and s the loop_step
\* the run started with (no Stage resets loop_step); a run for which that number is 1, such
\* as a further run on a thread whose earlier run completed, goes through exactly one
\* Planner-to-Checker round and then the Analyst.
C30_CheckerCallsPerRun ==
    pc \in {"END", "failed"} =>
        LET s == Get(bb, "loop_step", 0) - calls["checker"]
            due == IF max_loop_steps - s > 1 THEN max_loop_steps - s ELSE 1
        IN  /\ calls["checker"] = due
            /\ due = 1 => \A n \in {"planner", "searcher", "selector", "checker", "analyst"} :
                             calls[n] = 1

\* the queries a session can hold: what the model planned, or the question of that session
OwnQueries(row_id, state) ==
    /\ state["user_query"] = SessionQuery[row_id]
    /\ \A f \in {"current_search_queries", "tried_queries"} :
          f \in DOMAIN state =>
             \A i \in 1..Len(state[f]) : state[f][i] \in {LlmQuery, NonStr, SessionQuery[row_id]}

\* C22: sessions that run under different thread ids are isolated however their Stages
\* are interleaved: a Stage of one session changes nothing of another session, a session
\* goes on from exactly the state its own last Stage left, no blackboard holds data of
\* another session, and the events of each session follow one another along the edges.
C22_SessionsIsolated ==
    /\ [][(thread' = thread) => (parked' = parked)]_vars
    /\ [][(thread' # thread) =>
            (/\ parked'[thread_id(thread)] = Session
             /\ bb' = parked[thread_id(thread')].bb
             /\ pc' = parked[thread_id(thread')].pc
             /\ last_event' = parked[thread_id(thread')].last_event)]_vars
    /\ [](/\ OwnQueries(thread, bb)
          /\ \A r \in Rows \ {thread} : OwnQueries(r, parked[thread_id(r)].bb))
    /\ [][(thread' = thread /\ last_event' # last_event) =>
            IF last_event.node = "none" THEN last_event'.node = "planner"
            ELSE last_event'.node \in EventSuccessors[last_event.node]]_vars

C22_Witness ==
    /\ thread = "r2"
    /\ pc = "analyst"
    /\ bb["tried_queries"] = <<"u2">>
    /\ parked[thread_id("r1")].pc = "selector"
    /\ parked[thread_id("r1")].bb["tried_queries"] = <<"u1">>
    /\ parked[thread_id("r1")].last_event.node = "searcher"

\* C31: whenever the Planner, the Searcher, the Selector, the Checker or the Analyst is
\* about to run, no resource of video_store has status candidate: candidates exist only
\* from the end of a Selector pass to the end of the Watcher pass that follows it.
C31_NoCandidateOutsideWatcher ==
    pc \in Stages \ {"watcher"} =>
        \A v \in DOMAIN Get(bb, "video_store", EmptyStore) :
            bb["video_store"][v].status # "candidate"

C31_Witness ==
    /\ pc = "checker"
    /\ last_event.node = "watcher"
    /\ calls["selector"] = 1 /\ calls["watcher"] = 1
    /\ DOMAIN bb["video_store"] # {}
    /\ \A v \in DOMAIN bb["video_store"] : bb["video_store"][v].status = "verified"

\* C32: a video id is processed by the Watcher at most once in a session: once its
\* resource is verified, no later Selector or Watcher pass changes its status, summary or
\* transcript, also when the video is found and selected again.
C32_VerifiedStaysAsIs ==
    [][\A v \in DOMAIN Get(bb, "video_store", EmptyStore) :
          bb["video_store"][v].status = "verified" =>
             /\ v \in DOMAIN bb'["video_store"]
             /\ bb'["video_store"][v] = bb["video_store"][v]]_vars

C32_Witness ==
    /\ last_event.node = "selector"
    /\ ranking = NoRanking /\ llm_reply.kind = "list"
    /\ Len(bb["raw_candidates"]) = 1
    /\ bb["raw_candidates"][1].id \in DOMAIN last_event.update["video_store"]
    /\ bb["video_store"][bb["raw_candidates"][1].id].status = "verified"
    /\ route = "checker"

\* C33: video_store only grows: no step removes an entry, every store the Selector or the
\* Watcher returns holds all keys of the store the Stage received, and every entry is
\* stored under the key that equals its own video_id.
C33_StoreOnlyGrows ==
    /\ [][(DOMAIN Get(bb, "video_store", EmptyStore)) \subseteq
             (DOMAIN Get(bb', "video_store", EmptyStore))]_vars
    /\ [][(last_event' # last_event /\ "video_store" \in DOMAIN last_event'.update) =>
             (/\ last_event'.node \in {"selector", "watcher"}
              /\ (DOMAIN Get(bb, "video_store", EmptyStore)) \subseteq
                    (DOMAIN last_event'.update["video_store"]))]_vars
    /\ [](\A v \in DOMAIN Get(bb, "video_store", EmptyStore) : bb["video_store"][v].video_id = v)

C33_Witness ==
    /\ last_event.node = "watcher"
    /\ calls["selector"] = 2 /\ calls["watcher"] = 1
    /\ DOMAIN last_event.update["video_store"] = {<<"A">>}
    /\ bb["video_store"][<<"A">>].video_id = <<"A">>
    /\ bb["video_store"][<<"A">>].status = "verified"

\* the Stages whose partial updates may hold a field
FieldWriters ==
    [loop_step |-> {"checker"}, routing_signal |-> {"checker"}, final_answer |-> {"analyst"},
     video_store |-> {"selector", "watcher"},
     raw_candidates |-> {"searcher"}, tried_queries |-> {"searcher"},
     text_search_context |-> {"searcher"},
     current_search_queries |-> {"planner"}, plan_trace |-> {"planner"}]

\* C34: each control or result field has fixed writers: only the Checker returns loop_step
\* or routing_signal, only the Analyst final_answer, only the Selector and the Watcher
\* video_store, only the Searcher raw_candidates, tried_queries or text_search_context,
\* only the Planner current_search_queries or plan_trace; a step of any other Stage leaves
\* the field as it is.
C34_FixedWriters ==
    /\ [](\A f \in (DOMAIN last_event.update) \cap (DOMAIN FieldWriters) :
             last_event.node \in FieldWriters[f])
    /\ [][\A f \in DOMAIN FieldWriters :
             pc \notin FieldWriters[f] =>
                /\ (f \in DOMAIN bb') <=> (f \in DOMAIN bb)
                /\ f \in DOMAIN bb => bb'[f] = bb[f]]_vars

C34_Witness ==
    /\ last_event.node = "checker"
    /\ DOMAIN last_event.update = {"loop_step", "routing_signal"}
    /\ bb["current_search_queries"] # <<>>
    /\ bb["raw_candidates"] # <<>>
    /\ DOMAIN bb["video_store"] # {}
    /\ bb["loop_step"] = 2

\* C35: the raw_candidates a Selector pass reads are those the Searcher call of the same
\* round returned: every Searcher call, the one that skips for lack of queries included,
\* replaces raw_candidates, so no Selector pass sees the list of an earlier round.
C35_CandidatesOfTheRound ==
    pc = "selector" =>
        /\ last_event.node = "searcher"
        /\ calls["searcher"] = calls["selector"] + 1
        /\ "raw_candidates" \in DOMAIN last_event.update
        /\ Get(bb, "raw_candidates", <<>>) = last_event.update["raw_candidates"]

C35_Witness ==
    /\ pc = "selector"
    /\ calls["searcher"] = 2
    /\ bb["current_search_queries"] = <<>>
    /\ last_event.update = [raw_candidates |-> <<>>]
    /\ bb["raw_candidates"] = <<>>
    /\ DOMAIN bb["video_store"] # {}

\* C36: when raw_candidates is empty or none of the raw candidates has a URL, the
\* Selector returns the video_store it received as it is, creates no resource and does
\* not call the ranking model.
C36_SelectorWithoutCandidates ==
    [][(/\ pc = "selector"
        /\ \A i \in 1..Len(Get(bb, "raw_candidates", <<>>)) : bb["raw_candidates"][i].link = NoLink) =>
           (/\ last_event' = [node |-> "selector",
                              update |-> [video_store |-> Get(bb, "video_store", EmptyStore)]]
            /\ bb'["video_store"] = Get(bb, "video_store", EmptyStore)
            /\ llm_reply' = Reply("selector", "none")
            /\ Get(bb', "metrics", EmptyMap) = Get(bb, "metrics", EmptyMap))]_vars

C36_Witness ==
    /\ last_event.node = "selector"
    /\ llm_reply = Reply("selector", "none")
    /\ Len(bb["raw_candidates"]) = 2
    /\ \A i \in 1..2 : bb["raw_candidates"][i].link = NoLink
    /\ DOMAIN bb["video_store"] = {<<"A">>}
    /\ bb["video_store"][<<"A">>].status = "rejected"

\* C37: no merge of a node's update lowers one of the global token counters of metrics
\* or removes a key of the metrics record, so the start_time the run invocation
\* supplied is still in the record, with its value, when the run has ended.
C37_MetricsOnlyGrow ==
    /\ [][LET before == Get(bb, "metrics", EmptyMap)
              after == Get(bb', "metrics", EmptyMap)
          IN  /\ DOMAIN before \subseteq DOMAIN after
              /\ \A k \in {"input_tokens", "output_tokens", "total_tokens"} :
                    Get(after, k, 0) >= Get(before, k, 0)]_vars
    /\ [](pc = "END" => /\ "start_time" \in DOMAIN bb["metrics"]
                        /\ bb["metrics"]["start_time"] = StartTime)

C37_Witness ==
    /\ pc = "END"
    /\ bb["metrics"]["start_time"] = StartTime
    /\ {"jit_selector", "jit_watcher", "jit_analyst"} \subseteq DOMAIN bb["metrics"]
    /\ bb["metrics"]["total_tokens"] >= 8

\* the records of a row in the results file
RecordsOf(row_id) == {i \in 1..Len(output_file) : output_file[i].row_id = row_id}

\* C38: in the batch harness, whatever the order in which the tasks complete, a row has
\* at most one record in the results file; a record is appended only by the parent's
\* step that takes a completed future, and it is the record of that future; a task
\* whose graph construction, run or judge failed is completed with a record of its
\* own row (marked incorrect when the construction or the judge failed), and in the
\* end every row has its record in the file.
C38_OneRecordPerRow ==
    /\ [](\A row_id \in data : Cardinality(RecordsOf(row_id)) <= 1)
    /\ [][output_file' # output_file =>
             \E row_id \in data :
                /\ futures[row_id].stage = "done"
                /\ futures' = [futures EXCEPT ![row_id].stage = "collected"]
                /\ output_file' = Append(output_file, futures[row_id].result)]_vars
    /\ [](\A row_id \in data :
             (futures[row_id].stage \in {"done", "collected"} /\ futures[row_id].failure # "none") =>
                 /\ futures[row_id].result # Raised
                 /\ futures[row_id].result.row_id = row_id
                 /\ (futures[row_id].failure \in {"init", "judge"} =>
                        futures[row_id].result.is_correct = FALSE))
    /\ <>[](\A row_id \in data : Cardinality(RecordsOf(row_id)) = 1)

C38_Witness ==
    /\ Len(output_file) = 3
    /\ output_file[1] = InitErrorResult("r3")
    /\ output_file[2] = [row_id |-> "r1", prediction |-> CriticalWorkerError, is_correct |-> FALSE]
    /\ output_file[3] = [row_id |-> "r2", prediction |-> ExecutionErrorAnswer, is_correct |-> FALSE]
    /\ futures["r2"].failure = "judge"

\* C39: visited_video_ids is empty in every state of a session, and no node's partial
\* update holds the field, also not the update of a Watcher pass that processed a video.
C39_VisitedStaysEmpty ==
    /\ bb["visited_video_ids"] = <<>>
    /\ last_event # NoEvent => "visited_video_ids" \notin DOMAIN last_event.update

C39_Witness ==
    /\ last_event.node = "watcher"
    /\ llm_reply = Reply("watcher", "per video")
    /\ \E v \in DOMAIN bb["video_store"] : bb["video_store"][v].status = "verified"
    /\ run = 2
    /\ bb["visited_video_ids"] = <<>>

\* the metrics run_agent of the batch harness returns for a first run that is over:
\* those of the Analyst's event, an empty record when the event holds none
run_agent_metrics ==
    IF pc # "failed" /\ last_event.node = "analyst"
    THEN Get(last_event.update, "metrics", EmptyMap)
    ELSE EmptyMap

\* the token fields of the record worker_task returns
worker_task_tokens ==
    LET metrics == run_agent_metrics
        watcher == Get(metrics, "watcher", EmptyMap)
    IN  [input_tokens |-> Get(metrics, "input_tokens", 0),
         output_tokens |-> Get(metrics, "output_tokens", 0),
         total_tokens |-> Get(metrics, "total_tokens", 0),
         watcher_input_tokens |-> Get(watcher, "input_tokens", 0),
         watcher_output_tokens |-> Get(watcher, "output_tokens", 0),
         watcher_total_tokens |-> Get(watcher, "total_tokens", 0)]

\* C40: the token fields the batch harness records for a row are the global counters of
\* the blackboard after the Analyst, also after a fixed answer, and its watcher fields are
\* the counters of the Watcher's category.
C40_RecordedTokens ==
    (pc = "END" /\ run = 1) =>
        LET metrics == Get(bb, "metrics", EmptyMap)
            watcher == Get(metrics, "jit_watcher", EmptyMap)
        IN  worker_task_tokens =
               [input_tokens |-> Get(metrics, "input_tokens", 0),
                output_tokens |-> Get(metrics, "output_tokens", 0),
                total_tokens |-> Get(metrics, "total_tokens", 0),
                watcher_input_tokens |-> Get(watcher, "input_tokens", 0),
                watcher_output_tokens |-> Get(watcher, "output_tokens", 0),
                watcher_total_tokens |-> Get(watcher, "total_tokens", 0)]

====
